---- MODULE Spec2Model ----
(***************************************************************************)
(* Model of two programs of the repository.                                 *)
(*                                                                         *)
(* The searchRAG tool of src/mcp_servers/rag/rag_server.py: the            *)
(* retrieval from one of two vector stores, the sequential relevance       *)
(* grading loop with its per-call timeout and include-on-failure policy,   *)
(* and the conversion of every exception into a one-element error list.    *)
(*                                                                         *)
(* searchRAG is a coroutine: it runs atomically from one await to the      *)
(* next.  Its only await is the grading call of line 185, so one action    *)
(* models the code from the call of searchRAG to the first grading call,   *)
(* and one action models the code from the end of a grading call to the    *)
(* next grading call or to the return.                                     *)
(*                                                                         *)
(* Confidence scores are counted in thousandths (0.5 is 500, 0.6 is 600),  *)
(* so that a score can lie between two hundredths; the scores of the log    *)
(* line are counted in hundredths, the precision round(score, 2) keeps.     *)
(* Time is counted in seconds of waiting at the await, per invocation.     *)
(*                                                                         *)
(* The web application of src/lily_client/web/app.py: the global MCP       *)
(* client, the lifecycle hooks startup() and shutdown() that create and    *)
(* drop it, and the handlers of /api/chat and /api/regenerate with the     *)
(* generator that streams their answer.  The hooks and the handlers are    *)
(* coroutines of one event loop: each action is the code from one await,   *)
(* or one yield, to the next.  The hooks are run one after the other by    *)
(* the server (before_serving, after_serving); a request runs across them. *)
(* MCPClient is not part of the model: each call of one of its methods     *)
(* returns or raises as the environment chooses.                           *)
(***************************************************************************)
EXTENDS Integers, Sequences, FiniteSets, TLC

\* ---------------------------------------------------------------- bounds
\* Largest number of documents a vector store holds.
MaxDocs == 3
\* Largest number of documents a vector store holds when two invocations
\* run concurrently.
ConcDocs == 2
\* Largest number of calls of the lifecycle hooks startup() and shutdown().
MaxHookCalls == 3

\* ------------------------------------------------------ program constants
\* search_kwargs={"k": 5}
K == 5
\* asyncio.timeout(10)
GradeTimeout == 10
\* result.confidence_score > 0.5
Threshold == 500
\* confidence_scores.append(0.6)
DefaultConfidence == 600
\* app.py: asyncio.timeout(120)
ChatTimeout == 120

\* ----------------------------------------------------------------- inputs
Invocations == 1..2
Solo == {1}
ValidTables == {"repairs", "blogs"}
Tables == ValidTables \cup {"warranties"}
Queries == {"ice maker not working", "door seal"}

\* A Document of a vector store: its text and the CSV row it was loaded from.
Doc(text, row) == [page_content |-> text, row |-> row]

\* The documents of all_repairs.csv and of partselect_blogs.csv, in the order
\* the index ranks them; two rows of a table may hold the same text.
repairs_docs ==
    << Doc("chunk1", 1), Doc("chunk2", 2), Doc("chunk3", 3),
       Doc("chunk1", 4), Doc("chunk5", 5), Doc("chunk6", 6) >>
blogs_docs ==
    << Doc("post1", 1), Doc("post2", 2), Doc("post2", 3),
       Doc("post4", 4), Doc("post5", 5), Doc("post6", 6) >>

CsvDocs(t) == IF t = "repairs" THEN repairs_docs ELSE blogs_docs

\* An exception: the name of its class and str(e).
Exc(type, detail) == [type |-> type, detail |-> detail]
NoFault == Exc("", "")

\* What a store's search can raise: FAISS asserts the embedding dimension
\* with a bare assert (str(e) is empty); the embedding model can fail.
StoreFaults ==
    { Exc("AssertionError", ""), Exc("RuntimeError", "embedding model unavailable") }

\* A vector store: the documents it indexes, and the exception its search
\* raises, if any.
VectorStore(docs, fault) == [docs |-> docs, fault |-> fault]

StoreStates(t, n) ==
    { VectorStore(SubSeq(CsvDocs(t), 1, m), NoFault) : m \in 0..n }
        \cup { VectorStore(SubSeq(CsvDocs(t), 1, n), f) : f \in StoreFaults }

\* ------------------------------------------------------ grader responses
\* The text of a chat completion, as a sequence of tokens: a markdown fence
\* opening a json block, a bare fence, a JSON object with a numeric
\* confidence_score, a JSON object without that field, a JSON object whose
\* confidence_score is no number, and text that is no JSON.
Tok(kind, val) == [tok |-> kind, val |-> val]
FenceJson == Tok("fence_json", 0)
Fence == Tok("fence", 0)
Json(score) == Tok("confidence_score", score)
JsonNoField == Tok("missing_field", 0)
JsonNotNumber == Tok("non_numeric", 0)
Prose == Tok("prose", 0)

\* What one grading call does: it answers with a text after lat seconds,
\* it raises after lat seconds, or it does not answer within the timeout.
Answer(text, lat) == [kind |-> "response", text |-> text, exc |-> NoFault, lat |-> lat]
Raises(exc, lat) == [kind |-> "error", text |-> << >>, exc |-> exc, lat |-> lat]
Silent == [kind |-> "timeout", text |-> << >>, exc |-> NoFault, lat |-> GradeTimeout]

GraderResponses ==
    { Answer(<< Json(100) >>, 1),
      Answer(<< FenceJson, Json(300), Fence >>, 4),
      Answer(<< Json(500) >>, 1),
      Answer(<< Json(600) >>, 4),
      Answer(<< Fence, Json(700), Fence >>, 4),
      Answer(<< Json(900) >>, 1),
      Answer(<< Json(504) >>, 1),
      Answer(<< Json(857) >>, 4),
      Answer(<< Prose, Json(900) >>, 1),
      Answer(<< JsonNotNumber >>, 1),
      Answer(<< FenceJson, JsonNoField, Fence >>, 4) }
GraderErrors ==
    { Raises(Exc("APIConnectionError", "Connection error."), 1) }
GraderOutcomes == GraderResponses \cup GraderErrors \cup {Silent}

\* The outcomes of the run of two concurrent invocations.
ConcOutcomes ==
    { Answer(<< Json(100) >>, 1), Answer(<< Fence, Json(700), Fence >>, 4), Silent }
        \cup GraderErrors

\* The outcomes of the run that checks termination: one of each kind.
LiveOutcomes ==
    { Answer(<< Json(100) >>, 1), Answer(<< FenceJson, Json(900), Fence >>, 4),
      Answer(<< JsonNotNumber >>, 1), Silent }
        \cup GraderErrors

\* ------------------------------------------------------------------ state
VARIABLES
    store,              \* repairs_vector_store, blogs_vector_store
    pc,                 \* where each invocation of searchRAG is
    table, query,       \* its arguments
    context,            \* the page_content of the retrieved documents
    idx,                \* the position in context of the document being graded
    relevant_docs,      \* the documents included so far
    confidence_scores,  \* the scores recorded so far
    deadline,           \* when the timeout of the current grading call expires
    clock,              \* seconds this invocation has waited so far
    result,             \* the list searchRAG returned
    escaped,            \* the exception that left searchRAG, if any
    searched,           \* the tables whose retriever was invoked
    calls,              \* per grading call: start, end, and what the grader did
    judgments,          \* per graded document: included or not, and the score
    logged,             \* the summaries logger.info wrote (lines 231-232)
    client,             \* app.py: the global client (line 33)
    constructed,        \* app.py: how many times MCPClient() was called
    hook_pc,            \* app.py: where the running lifecycle hook is
    hooks,              \* app.py: the hook calls that returned, in order
    req,                \* app.py: the request to /api/chat or /api/regenerate
    client_calls        \* app.py: the method calls made on a client, in order

ragVars == << store, pc, table, query, context, idx, relevant_docs,
              confidence_scores, deadline, clock, result, escaped, searched,
              calls, judgments, logged >>

webVars == << client, constructed, hook_pc, hooks, req, client_calls >>

vars == << ragVars, webVars >>

\* ------------------------------------------------------ retrieval (155-169)
Reverse(seq) == [j \in 1..Len(seq) |-> seq[Len(seq) + 1 - j]]
Min(a, b) == IF a <= b THEN a ELSE b

\* The similarity ranking of a store's documents for a query: the external
\* index ranks by embedding distance; two rankings stand for it.
Ranked(docs, q) == IF q = "door seal" THEN Reverse(docs) ELSE docs

\* vector_store.as_retriever(search_kwargs={"k": 5}).invoke(query): the k
\* nearest documents, or the exception the store raises.
RetrieverInvoke(vs, q) ==
    IF vs.fault # NoFault
    THEN [kind |-> "raise", docs |-> << >>, exc |-> vs.fault]
    ELSE [kind |-> "docs",
          docs |-> SubSeq(Ranked(vs.docs, q), 1, Min(K, Len(vs.docs))),
          exc |-> NoFault]

\* The dispatch with blogs as the default branch instead of the ValueError.
RetrieveDefaultBlogs(st, t, q) ==
    IF t = "repairs"
    THEN [got |-> RetrieverInvoke(st["repairs"], q), searched |-> << "repairs" >>]
    ELSE [got |-> RetrieverInvoke(st["blogs"], q), searched |-> << "blogs" >>]

\* Lines 157-162: the retriever of the table is invoked, or ValueError.
Retrieve(st, t, q) ==
    IF t = "repairs"
    THEN [got |-> RetrieverInvoke(st["repairs"], q), searched |-> << "repairs" >>]
    ELSE IF t = "blogs"
    THEN [got |-> RetrieverInvoke(st["blogs"], q), searched |-> << "blogs" >>]
    ELSE [got |-> [kind |-> "raise", docs |-> << >>,
                   exc |-> Exc("ValueError", "Invalid table: " \o t)],
          searched |-> << >>]

\* Line 165.
PageContents(docs) == [j \in 1..Len(docs) |-> docs[j].page_content]

\* The empty context returned as it is (return context).
EmptyContextReturned == << >>

\* Line 169.
EmptyContextResult == << "No relevant documents found." >>

\* ------------------------------------------------ the handler (239-244)
\* The classes of the exceptions of this model that derive from Exception.
ExceptionClasses ==
    { "ValueError", "AssertionError", "RuntimeError", "APIConnectionError",
      "TimeoutError" }

\* The handler catching ValueError alone (except ValueError as e).
CaughtValueErrorOnly(e) == e.type = "ValueError"

\* except Exception as e
Caught(e) == e.type \in ExceptionClasses

\* The message built without the test of str(e).
ErrorMsgUnconditional(e) == e.type \o ": " \o e.detail

\* Line 240.
ErrorMsg(e) == IF e.detail # "" THEN e.type \o ": " \o e.detail ELSE e.type

\* Line 244.
ErrorResult(t, e) == << "Error searching " \o t \o ": " \o ErrorMsg(e) >>

\* An exception e reaches the handler of line 239 in local state s.
Except(s, e) ==
    IF Caught(e)
    THEN [s EXCEPT !.pc = "done", !.result = ErrorResult(s.table, e)]
    ELSE [s EXCEPT !.pc = "raised", !.escaped = e]

\* ------------------------------------------------ the grading loop (178-237)
Pending == [kind |-> "pending", text |-> << >>, exc |-> NoFault, lat |-> 0]

\* One timeout around the whole loop: the deadline counted from its start.
BatchDeadline(now) == GradeTimeout

\* Line 184: asyncio.timeout(10) entered at time now.
CallDeadline(now) == now + GradeTimeout

\* Lines 181-185: the grading call for context[idx] is issued and awaited.
IssueCall(s) ==
    [s EXCEPT !.pc = "awaiting",
              !.deadline = CallDeadline(s.clock),
              !.calls = Append(@, [start |-> s.clock, end |-> -1, did |-> Pending])]

\* Lines 201-207: the markdown code fence around the payload is removed.
StripFences(text) ==
    LET t1 == IF text # << >> /\ Head(text) = FenceJson THEN Tail(text) ELSE text
        t2 == IF t1 # << >> /\ Head(t1) = Fence THEN Tail(t1) ELSE t1
    IN IF t2 # << >> /\ t2[Len(t2)] = Fence THEN SubSeq(t2, 1, Len(t2) - 1) ELSE t2

\* Line 210: GradeDocuments.model_validate_json accepts one JSON object with
\* a numeric confidence_score and nothing else.
Validates(text) == Len(text) = 1 /\ text[1].tok = "confidence_score"

\* The threshold taken as inclusive (confidence_score >= 0.5).
IncludedAtThreshold(score) == score >= Threshold

\* Line 212.
Included(score) == score > Threshold

\* Lines 211-213.
Parsed(s, score) ==
    [s EXCEPT !.confidence_scores = Append(@, score),
              !.relevant_docs = IF Included(score)
                                THEN Append(@, s.context[s.idx]) ELSE @]

\* Lines 214-218.
ParseFailed(s) ==
    [s EXCEPT !.relevant_docs = Append(@, s.context[s.idx]),
              !.confidence_scores = Append(@, DefaultConfidence)]

\* The timeout handler falling through to a second append of the document.
TimedOutTwice(s) ==
    [s EXCEPT !.relevant_docs = Append(Append(@, s.context[s.idx]), s.context[s.idx]),
              !.confidence_scores = Append(@, DefaultConfidence)]

\* Lines 220-223.
TimedOut(s) ==
    [s EXCEPT !.relevant_docs = Append(@, s.context[s.idx]),
              !.confidence_scores = Append(@, DefaultConfidence)]

\* The error handler failing closed: the document is dropped.
GradeFailedClosed(s) ==
    [s EXCEPT !.confidence_scores = Append(@, 0)]

\* Lines 224-228.
GradeFailed(s) ==
    [s EXCEPT !.relevant_docs = Append(@, s.context[s.idx]),
              !.confidence_scores = Append(@, DefaultConfidence)]

\* Lines 199-218: the response text is stripped, parsed and judged.
OnResponse(s, text) ==
    LET response_text == StripFences(text)
    IN IF Validates(response_text)
       THEN Parsed(s, response_text[1].val)
       ELSE ParseFailed(s)

\* Lines 220-228: the except clauses of the grading call, in their order.
OnRaise(s, e) ==
    IF e.type = "TimeoutError" THEN TimedOut(s)
    ELSE IF Caught(e) THEN GradeFailed(s)
    ELSE Except(s, e)

\* The return without the check for an empty list.
FinishUnchecked(docs) == docs

\* Lines 234-237.
Finish(docs) == IF Len(docs) = 0 THEN << "No relevant documents found." >> ELSE docs

\* round(score, 2) cut to the hundredths alone (int(score * 100) / 100).
Truncate2(score) == score \div 10

\* Line 232: round(score, 2), the nearest hundredth of a score given in
\* thousandths.  Halfway between two hundredths the result of round depends
\* on the binary value of the float; the scores of this model are never
\* halfway.
Round2(score) == (score + 5) \div 10

\* Lines 231-232: "Found {len(relevant_docs)}/{len(context)} relevant
\* documents" and "Confidence scores: [...]".
LogSummary(s) ==
    [included |-> Len(s.relevant_docs),
     total |-> Len(s.context),
     scores |-> [j \in 1..Len(s.confidence_scores) |-> Round2(s.confidence_scores[j])]]

\* Line 181 and lines 230-237: the next document, or the summary and the
\* return.
NextDoc(s) ==
    IF s.pc # "awaiting" THEN s
    ELSE IF s.idx < Len(s.context)
    THEN IssueCall([s EXCEPT !.idx = @ + 1])
    ELSE [s EXCEPT !.pc = "done",
                   !.logged = Append(@, LogSummary(s)),
                   !.result = Finish(s.relevant_docs)]

\* Lines 155-185: from the call of searchRAG to its first await or return.
Enter(s, st, t, q) ==
    LET r == Retrieve(st, t, q)
        s1 == [s EXCEPT !.table = t, !.query = q, !.searched = r.searched]
    IN IF r.got.kind = "raise" THEN Except(s1, r.got.exc)
       ELSE LET ctx == PageContents(r.got.docs)
            IN IF ctx = << >>
               THEN [s1 EXCEPT !.context = ctx, !.pc = "done",
                               !.result = EmptyContextResult]
               ELSE IssueCall([s1 EXCEPT !.context = ctx, !.idx = 1,
                                         !.relevant_docs = << >>,
                                         !.confidence_scores = << >>])

\* ---------------------------------------------------------------- actions
\* The local variables of invocation i.
Frame(i) ==
    [pc |-> pc[i], table |-> table[i], query |-> query[i],
     context |-> context[i], idx |-> idx[i],
     relevant_docs |-> relevant_docs[i],
     confidence_scores |-> confidence_scores[i],
     deadline |-> deadline[i], clock |-> clock[i], result |-> result[i],
     escaped |-> escaped[i], searched |-> searched[i], calls |-> calls[i],
     judgments |-> judgments[i], logged |-> logged[i]]

\* The lists kept at module level: one list, shared by every invocation.
ModuleLevel(f, i, v) == [j \in DOMAIN f |-> v]

\* Lines 178-179: relevant_docs and confidence_scores are local variables of
\* the coroutine; every invocation has its own.
Local(f, i, v) == [f EXCEPT ![i] = v]

\* Invocation i reaches its next await, or returns, in local state n.
Suspend(i, n) ==
    /\ pc' = [pc EXCEPT ![i] = n.pc]
    /\ table' = [table EXCEPT ![i] = n.table]
    /\ query' = [query EXCEPT ![i] = n.query]
    /\ context' = [context EXCEPT ![i] = n.context]
    /\ idx' = [idx EXCEPT ![i] = n.idx]
    /\ relevant_docs' = Local(relevant_docs, i, n.relevant_docs)
    /\ confidence_scores' = Local(confidence_scores, i, n.confidence_scores)
    /\ deadline' = [deadline EXCEPT ![i] = n.deadline]
    /\ clock' = [clock EXCEPT ![i] = n.clock]
    /\ result' = [result EXCEPT ![i] = n.result]
    /\ escaped' = [escaped EXCEPT ![i] = n.escaped]
    /\ searched' = [searched EXCEPT ![i] = n.searched]
    /\ calls' = [calls EXCEPT ![i] = n.calls]
    /\ judgments' = [judgments EXCEPT ![i] = n.judgments]
    /\ logged' = [logged EXCEPT ![i] = n.logged]
    /\ UNCHANGED << store, webVars >>

\* What the grading call that just ended did, and the judgment the code
\* made of its document: whether it appended the document, and the score
\* it appended.
Observe(before, after, o) ==
    LET cs == after.confidence_scores
        judged == Len(cs) > Len(before.confidence_scores)
                      \/ Len(after.relevant_docs) > Len(before.relevant_docs)
    IN [after EXCEPT
          !.calls = [@ EXCEPT ![Len(@)] =
                        [start |-> @.start, end |-> before.clock, did |-> o]],
          !.judgments =
              IF judged
              THEN Append(@, [included |-> Len(after.relevant_docs)
                                               > Len(before.relevant_docs),
                              confidence |-> IF Len(cs) > Len(before.confidence_scores)
                                             THEN cs[Len(cs)] ELSE -1])
              ELSE @]

\* Lines 185-237: the coroutine resumes from a grading call that did o: the
\* call answered or raised o.lat seconds after its start, or its deadline
\* passed and asyncio.timeout raised TimeoutError.
Resume(s, o) ==
    LET s0 == [s EXCEPT !.clock = IF o.kind = "timeout" THEN s.deadline ELSE @ + o.lat]
    IN NextDoc(Observe(s0,
                       IF o.kind = "response" THEN OnResponse(s0, o.text)
                       ELSE IF o.kind = "error" THEN OnRaise(s0, o.exc)
                       ELSE OnRaise(s0, Exc("TimeoutError", "")),
                       o))

\* searchRAG(table, query) is called: lines 155-185.
Invoke(i, t, q) ==
    /\ pc[i] = "idle"
    /\ Suspend(i, Enter(Frame(i), store, t, q))

\* The grading call answers before its deadline: lines 199-218, then the
\* next document or the return.
GradeAnswered(i, o) ==
    /\ pc[i] = "awaiting"
    /\ o.kind = "response"
    /\ clock[i] + o.lat < deadline[i]
    /\ Suspend(i, Resume(Frame(i), o))

\* The grading call raises before its deadline: lines 220-228, then the next
\* document or the return.
GradeRaised(i, o) ==
    /\ pc[i] = "awaiting"
    /\ o.kind = "error"
    /\ clock[i] + o.lat < deadline[i]
    /\ Suspend(i, Resume(Frame(i), o))

\* The deadline of the grading call passes: asyncio.timeout cancels the call
\* and raises TimeoutError; lines 220-223, then the next document or the
\* return.
GradeTimedOut(i) ==
    /\ pc[i] = "awaiting"
    /\ clock[i] <= deadline[i]
    /\ Suspend(i, Resume(Frame(i), Silent))

\* ============================================= src/lily_client/web/app.py
\* ----------------------------------------------------------- web inputs
\* None, and the object the n-th call of MCPClient() made.
None == << >>
MCPClient(n) == << "MCPClient", n >>

Endpoints == {"/api/chat", "/api/regenerate"}

\* The JSON body of a POST: an object, or another JSON value (null), for
\* which request.get_json() gives None; whether the object has the key
\* 'query', and the value of that key.
Body(is_object, has_query, q) ==
    [is_object |-> is_object, has_query |-> has_query, query |-> q]
Bodies ==
    { Body(FALSE, FALSE, ""),
      Body(TRUE, FALSE, ""),
      Body(TRUE, TRUE, ""),
      Body(TRUE, TRUE, "why is my fridge warm") }

\* What a call of a method of the client does: it returns text after lat
\* seconds, or it raises after lat seconds.
Reply(text, lat) == [kind |-> "return", text |-> text, exc |-> NoFault, lat |-> lat]
Fails(exc, lat) == [kind |-> "raise", text |-> "", exc |-> exc, lat |-> lat]
NotCalled == [kind |-> "none", text |-> "", exc |-> NoFault, lat |-> 0]

\* process_query and regenerate_response: quick and slow answers, answers
\* that come after the deadline, and exceptions, one of them the
\* TimeoutError of a timeout inside the client.
QueryOutcomes ==
    { Reply("Check the evaporator fan.", 3),
      Reply("Replace the door gasket.", 119),
      Reply("Defrost the freezer.", 150),
      Fails(Exc("RuntimeError", "Not connected to server"), 1),
      Fails(Exc("TimeoutError", ""), 30),
      Fails(Exc("RuntimeError", "Connection closed"), 150) }

\* connect_to_server and cleanup return or raise.
ConnectErrors == { Exc("FileNotFoundError", "rag_server.py") }
CleanupErrors == { Exc("RuntimeError", "cancel scope exited in another task") }

\* The classes of the exceptions of the web application; all derive from
\* Exception.
WebExceptionClasses ==
    { "RuntimeError", "TimeoutError", "AttributeError", "FileNotFoundError" }

\* ------------------------------------------------ the hooks (lines 33-58)
\* Line 37: if client is None.
NeedsClient(c) == c = None

\* Line 45: except Exception as e.
CaughtByStartup(e) == e.type \in WebExceptionClasses

\* Line 54: except Exception as e.
CaughtByShutdown(e) == e.type \in WebExceptionClasses

\* client = None in an else clause: run only when cleanup() did not raise.
ClearedUnlessRaised(c, raised) == IF raised THEN c ELSE None

\* Lines 57-58: finally: client = None.
ClearedFinally(c, raised) == None

\* A call of a method on client object c.
Call(c, method, arg) == [on |-> c, method |-> method, arg |-> arg]

\* A hook call that returned: which hook, whether a call it made raised,
\* and the global client when it returned.
HookReturn(hook, raised, c) == [hook |-> hook, raised |-> raised, client |-> c]

\* --------------------------------- the handlers (lines 64-91 and 108-135)
\* The request before it arrives.
NoRequest ==
    [pc |-> "idle", endpoint |-> "", body |-> Body(FALSE, FALSE, ""),
     checked |-> None, query |-> "", status |-> 0, error |-> "",
     events |-> << >>, escaped |-> NoFault, did |-> NotCalled,
     deadline |-> 0, waited |-> 0]

\* Lines 80 and 124: the method of the client the endpoint calls.
Method(endpoint) ==
    IF endpoint = "/api/chat" THEN "process_query" ELSE "regenerate_response"

\* Lines 66-68: the handler is called and tests the global client; it
\* answers 400, or awaits the body of the request.
Handler(c, endpoint, body) ==
    LET r == [NoRequest EXCEPT !.endpoint = endpoint, !.body = body, !.checked = c]
    IN IF c = None
       THEN [r EXCEPT !.pc = "answered", !.status = 400,
                      !.error = "No MCP client initialized"]
       ELSE [r EXCEPT !.pc = "get_json"]

\* Lines 71 and 73: query = data.get('query'); not query.
NotQuery(data) == ~data.has_query \/ data.query = ""

\* Lines 70-91: the body has arrived.  data.get raises AttributeError when
\* data is None, and the exception leaves the handler; a missing or empty
\* query is answered 400; otherwise the handler returns the streaming
\* response, whose generator has not started.
GotJson(r) ==
    IF ~r.body.is_object
    THEN [r EXCEPT !.pc = "answered", !.status = 500,
                   !.escaped = Exc("AttributeError",
                                   "'NoneType' object has no attribute 'get'")]
    ELSE IF NotQuery(r.body)
    THEN [r EXCEPT !.pc = "answered", !.status = 400, !.error = "Missing query"]
    ELSE [r EXCEPT !.pc = "streaming", !.status = 200, !.query = r.body.query]

\* A server-sent event: f"data: {json.dumps({key: value})}\n\n".
Event(key, value) == [key |-> key, value |-> value]

\* The generator yields an event and is suspended at the yield.
Yield(r, ev) == [r EXCEPT !.pc = "yielded", !.events = Append(@, ev)]

\* The handler of line 86 catching RuntimeError alone.
CaughtRuntimeErrorOnly(e) == e.type = "RuntimeError"

\* Lines 86 and 130: except Exception as e.
CaughtByGenerate(e) == e.type \in WebExceptionClasses

\* Lines 82-89: an exception e is raised inside the try of generate().
GenerateExcept(r, e) ==
    IF e.type = "TimeoutError"
    THEN Yield(r, Event("error", "The request took too long to process. Please try again with a simpler query."))
    ELSE IF CaughtByGenerate(e)
    THEN Yield(r, Event("error", "Error processing message: " \o e.detail))
    ELSE [r EXCEPT !.pc = "broken", !.escaped = e]

\* Lines 76-80: the generator starts, enters the timeout and looks up the
\* method on the global client, which raises AttributeError when the global
\* is None by now; otherwise the generator awaits the call.
Generate(r, c) ==
    LET r0 == [r EXCEPT !.deadline = r.waited + ChatTimeout]
    IN IF c = None
       THEN GenerateExcept(r0, Exc("AttributeError",
                "'NoneType' object has no attribute '" \o Method(r.endpoint) \o "'"))
       ELSE [r0 EXCEPT !.pc = "calling"]

\* Line 78: the call ends before the deadline of asyncio.timeout(120).
BeforeDeadline(r, o) == r.waited + o.lat < r.deadline

\* Lines 80-81: the call returned; the response is yielded.
OnReturn(r, o) ==
    Yield([r EXCEPT !.waited = @ + o.lat, !.did = o], Event("response", o.text))

\* Lines 82-89: the call raised.
OnFail(r, o) ==
    GenerateExcept([r EXCEPT !.waited = @ + o.lat, !.did = o], o.exc)

\* Lines 78 and 82-85: the deadline passed; asyncio.timeout cancelled the
\* call and raised TimeoutError.
OnDeadline(r, o) ==
    GenerateExcept([r EXCEPT !.waited = r.deadline, !.did = o],
                   Exc("TimeoutError", ""))

\* ------------------------------------------------------------ web actions
\* A step of the web application leaves the RAG server alone.
WebStep == UNCHANGED ragVars

\* startup() is called (lines 35-42): it returns at once when a client
\* exists; otherwise it makes one and awaits the connection to "rag".
Startup ==
    /\ hook_pc = "idle"
    /\ Len(hooks) < MaxHookCalls
    /\ IF NeedsClient(client)
       THEN /\ client' = MCPClient(constructed + 1)
            /\ constructed' = constructed + 1
            /\ hook_pc' = "connect_rag"
            /\ client_calls' =
                   Append(client_calls,
                          Call(MCPClient(constructed + 1), "connect_to_server", "rag"))
            /\ UNCHANGED hooks
       ELSE /\ hooks' = Append(hooks, HookReturn("startup", FALSE, client))
            /\ UNCHANGED << client, constructed, hook_pc, client_calls >>
    /\ UNCHANGED req
    /\ WebStep

\* Lines 42-44: a connect_to_server call returned; startup() awaits the
\* connection to "mysql", or returns.
ConnectReturned ==
    /\ hook_pc \in {"connect_rag", "connect_mysql"}
    /\ IF hook_pc = "connect_rag"
       THEN /\ hook_pc' = "connect_mysql"
            /\ client_calls' =
                   Append(client_calls, Call(client, "connect_to_server", "mysql"))
            /\ UNCHANGED hooks
       ELSE /\ hook_pc' = "idle"
            /\ hooks' = Append(hooks, HookReturn("startup", FALSE, client))
            /\ UNCHANGED client_calls
    /\ UNCHANGED << client, constructed, req >>
    /\ WebStep

\* Lines 45-46: a connect_to_server call raised e; startup() logs it and
\* returns, or e leaves startup().
ConnectRaised(e) ==
    /\ hook_pc \in {"connect_rag", "connect_mysql"}
    /\ hook_pc' = IF CaughtByStartup(e) THEN "idle" ELSE "crashed"
    /\ hooks' = IF CaughtByStartup(e)
                THEN Append(hooks, HookReturn("startup", TRUE, client))
                ELSE hooks
    /\ UNCHANGED << client, constructed, req, client_calls >>
    /\ WebStep

\* shutdown() is called (lines 49-53): it returns at once when there is no
\* client; otherwise it awaits client.cleanup().
Shutdown ==
    /\ hook_pc = "idle"
    /\ Len(hooks) < MaxHookCalls
    /\ IF client # None
       THEN /\ hook_pc' = "cleanup"
            /\ client_calls' = Append(client_calls, Call(client, "cleanup", ""))
            /\ UNCHANGED hooks
       ELSE /\ hooks' = Append(hooks, HookReturn("shutdown", FALSE, client))
            /\ UNCHANGED << hook_pc, client_calls >>
    /\ UNCHANGED << client, constructed, req >>
    /\ WebStep

\* Lines 53 and 57-58: cleanup() returned.
CleanupReturned ==
    /\ hook_pc = "cleanup"
    /\ hook_pc' = "idle"
    /\ client' = ClearedFinally(client, FALSE)
    /\ hooks' = Append(hooks, HookReturn("shutdown", FALSE, client'))
    /\ UNCHANGED << constructed, req, client_calls >>
    /\ WebStep

\* Lines 54-58: cleanup() raised e; shutdown() logs it, or e leaves
\* shutdown(); the finally clause runs in both cases.
CleanupRaised(e) ==
    /\ hook_pc = "cleanup"
    /\ client' = ClearedFinally(client, TRUE)
    /\ hook_pc' = IF CaughtByShutdown(e) THEN "idle" ELSE "crashed"
    /\ hooks' = IF CaughtByShutdown(e)
                THEN Append(hooks, HookReturn("shutdown", TRUE, client'))
                ELSE hooks
    /\ UNCHANGED << constructed, req, client_calls >>
    /\ WebStep

\* A POST to endpoint e with body b arrives: lines 64-70.
Request(e, b) ==
    /\ req.pc = "idle"
    /\ req' = Handler(client, e, b)
    /\ UNCHANGED << client, constructed, hook_pc, hooks, client_calls >>
    /\ WebStep

\* await request.get_json() ends: lines 70-91.
BodyRead ==
    /\ req.pc = "get_json"
    /\ req' = GotJson(req)
    /\ UNCHANGED << client, constructed, hook_pc, hooks, client_calls >>
    /\ WebStep

\* The server starts to send the response and asks the generator for its
\* first event: lines 76-80.
StreamStarted ==
    /\ req.pc = "streaming"
    /\ req' = Generate(req, client)
    /\ client_calls' =
           IF client # None
           THEN Append(client_calls, Call(client, Method(req.endpoint), req.query))
           ELSE client_calls
    /\ UNCHANGED << client, constructed, hook_pc, hooks >>
    /\ WebStep

\* The call of the client returns before the deadline: lines 80-81.
ClientReturned(o) ==
    /\ req.pc = "calling"
    /\ o.kind = "return"
    /\ BeforeDeadline(req, o)
    /\ req' = OnReturn(req, o)
    /\ UNCHANGED << client, constructed, hook_pc, hooks, client_calls >>
    /\ WebStep

\* The call of the client raises before the deadline: lines 82-89.
ClientRaised(o) ==
    /\ req.pc = "calling"
    /\ o.kind = "raise"
    /\ BeforeDeadline(req, o)
    /\ req' = OnFail(req, o)
    /\ UNCHANGED << client, constructed, hook_pc, hooks, client_calls >>
    /\ WebStep

\* The call of the client is not over at the deadline: lines 78 and 82-85.
ClientTimedOut(o) ==
    /\ req.pc = "calling"
    /\ ~BeforeDeadline(req, o)
    /\ req' = OnDeadline(req, o)
    /\ UNCHANGED << client, constructed, hook_pc, hooks, client_calls >>
    /\ WebStep

\* The server asks the generator for the event after the one it yielded:
\* the generator runs to its end (lines 81, 85, 89) and yields no more.
StreamEnded ==
    /\ req.pc = "yielded"
    /\ req' = [req EXCEPT !.pc = "closed"]
    /\ UNCHANGED << client, constructed, hook_pc, hooks, client_calls >>
    /\ WebStep

\* The web application before the server runs its hooks.
InitWeb ==
    /\ client = None
    /\ constructed = 0
    /\ hook_pc = "idle"
    /\ hooks = << >>
    /\ req = NoRequest
    /\ client_calls = << >>

\* ---------------------------------------------------------- specifications
InitFrames ==
    /\ pc = [i \in Invocations |-> "idle"]
    /\ table = [i \in Invocations |-> ""]
    /\ query = [i \in Invocations |-> ""]
    /\ context = [i \in Invocations |-> << >>]
    /\ idx = [i \in Invocations |-> 0]
    /\ relevant_docs = [i \in Invocations |-> << >>]
    /\ confidence_scores = [i \in Invocations |-> << >>]
    /\ deadline = [i \in Invocations |-> 0]
    /\ clock = [i \in Invocations |-> 0]
    /\ result = [i \in Invocations |-> << >>]
    /\ escaped = [i \in Invocations |-> NoFault]
    /\ searched = [i \in Invocations |-> << >>]
    /\ calls = [i \in Invocations |-> << >>]
    /\ judgments = [i \in Invocations |-> << >>]
    /\ logged = [i \in Invocations |-> << >>]

\* One invocation, every store of at most MaxDocs documents, every grader
\* outcome.
Init ==
    /\ store \in [ValidTables -> UNION { StoreStates(t, MaxDocs) : t \in ValidTables }]
    /\ \A t \in ValidTables : store[t] \in StoreStates(t, MaxDocs)
    /\ InitFrames
    /\ InitWeb

Next ==
    \E i \in Solo :
        \/ \E t \in Tables, q \in Queries : Invoke(i, t, q)
        \/ \E o \in GraderOutcomes : GradeAnswered(i, o)
        \/ \E o \in GraderOutcomes : GradeRaised(i, o)
        \/ GradeTimedOut(i)

Spec == Init /\ [][Next]_vars

\* One invocation, one grader outcome of each kind, and the event loop
\* resuming the coroutine when its grading call has ended or timed out.
NextLive ==
    \E i \in Solo :
        \/ \E t \in Tables, q \in Queries : Invoke(i, t, q)
        \/ \E o \in LiveOutcomes : GradeAnswered(i, o)
        \/ \E o \in LiveOutcomes : GradeRaised(i, o)
        \/ GradeTimedOut(i)

Resumed(i) ==
    \/ \E o \in LiveOutcomes : GradeAnswered(i, o)
    \/ \E o \in LiveOutcomes : GradeRaised(i, o)
    \/ GradeTimedOut(i)

\* Every store of at most MaxDocs repairs, and one blog post.
InitLive ==
    /\ store \in [ValidTables -> UNION { StoreStates(t, MaxDocs) : t \in ValidTables }]
    /\ store["repairs"] \in StoreStates("repairs", MaxDocs)
    /\ store["blogs"] = VectorStore(SubSeq(blogs_docs, 1, 1), NoFault)
    /\ InitFrames
    /\ InitWeb

LiveSpec ==
    InitLive /\ [][NextLive]_vars /\ \A i \in Solo : WF_vars(Resumed(i))

\* Two invocations interleaving at their awaits, over the same stores.
InitConc ==
    /\ store \in [ValidTables -> UNION { StoreStates(t, ConcDocs) : t \in ValidTables }]
    /\ store["repairs"] = VectorStore(SubSeq(repairs_docs, 1, ConcDocs), NoFault)
    /\ store["blogs"] \in
           { VectorStore(SubSeq(blogs_docs, 1, ConcDocs - 1), NoFault),
             VectorStore(SubSeq(blogs_docs, 1, ConcDocs), Exc("AssertionError", "")) }
    /\ InitFrames
    /\ InitWeb

NextConc ==
    \E i \in Invocations :
        \/ \E t \in Tables, q \in Queries : Invoke(i, t, q)
        \/ \E o \in ConcOutcomes : GradeAnswered(i, o)
        \/ \E o \in ConcOutcomes : GradeRaised(i, o)
        \/ GradeTimedOut(i)

SpecConc == InitConc /\ [][NextConc]_vars

\* The web application: the hooks in any order, one after the other, and
\* one request that runs across them; the RAG server idle.
InitApp ==
    /\ store = [t \in ValidTables |-> VectorStore(<< >>, NoFault)]
    /\ InitFrames
    /\ InitWeb

NextApp ==
    \/ Startup
    \/ ConnectReturned
    \/ \E e \in ConnectErrors : ConnectRaised(e)
    \/ Shutdown
    \/ CleanupReturned
    \/ \E e \in CleanupErrors : CleanupRaised(e)
    \/ \E e \in Endpoints, b \in Bodies : Request(e, b)
    \/ BodyRead
    \/ StreamStarted
    \/ \E o \in QueryOutcomes : ClientReturned(o)
    \/ \E o \in QueryOutcomes : ClientRaised(o)
    \/ \E o \in QueryOutcomes : ClientTimedOut(o)
    \/ StreamEnded

SpecApp == InitApp /\ [][NextApp]_vars

\* =================================================================== claims
\* The invocations that have been called and have come to their end.
Returned(i) == pc[i] = "done"

\* The grading calls of invocation i that have ended.
Ended(i) == { j \in 1..Len(calls[i]) : calls[i][j].did # Pending }

\* What the grader did in call j of invocation i.
TimedOutCall(i, j) == calls[i][j].did.kind = "timeout"
RaisedCall(i, j) == calls[i][j].did.kind = "error"
AnsweredCall(i, j) == calls[i][j].did.kind = "response"
Payload(i, j) == StripFences(calls[i][j].did.text)
ParsedCall(i, j) == AnsweredCall(i, j) /\ Validates(Payload(i, j))
MalformedCall(i, j) == AnsweredCall(i, j) /\ ~Validates(Payload(i, j))
FailedCall(i, j) == TimedOutCall(i, j) \/ RaisedCall(i, j) \/ MalformedCall(i, j)

\* ----------------------------------------------------------------------- C1
\* What has been returned is a non-empty list of strings, and no exception
\* has left searchRAG.
C1_ReturnsText ==
    \A i \in Solo :
        /\ pc[i] # "raised"
        /\ escaped[i] = NoFault
        /\ Returned(i) =>
              /\ Len(result[i]) >= 1
              /\ \A k \in 1..Len(result[i]) : result[i][k] \in STRING

\* C1: whatever the table, the query, the store and the grader do (answer,
\* time out, answer with malformed text, raise), searchRAG comes to its end,
\* what it returns is a non-empty list of strings, and no exception leaves
\* it.  Checked under LiveSpec: the event loop resumes the coroutine.
C1_AlwaysReturnsText ==
    /\ []C1_ReturnsText
    /\ \A i \in Solo : (pc[i] # "idle") ~> Returned(i)

\* C1 witness: an invocation has returned after a timeout, a raising call and
\* a malformed answer.
C1_Witness ==
    /\ Returned(1)
    /\ \E j \in Ended(1) : TimedOutCall(1, j)
    /\ \E j \in Ended(1) : RaisedCall(1, j)
    /\ \E j \in Ended(1) : MalformedCall(1, j)
    /\ Len(result[1]) = 3

\* ----------------------------------------------------------------------- C2
RECURSIVE IsSubsequence(_, _)
IsSubsequence(a, b) ==
    IF a = << >> THEN TRUE
    ELSE IF b = << >> THEN FALSE
    ELSE IF Head(a) = Head(b) THEN IsSubsequence(Tail(a), Tail(b))
    ELSE IsSubsequence(a, Tail(b))

\* At least one candidate of invocation i was included.
SomeIncluded(i) == \E j \in 1..Len(judgments[i]) : judgments[i][j].included

\* C2: when searchRAG returns documents (at least one candidate was
\* included), the returned list is a subsequence of the candidate list: its
\* elements are candidates, in their original order, each candidate position
\* at most once.
C2_ResultIsSubsequence ==
    \A i \in Solo :
        (Returned(i) /\ SomeIncluded(i)) =>
            /\ IsSubsequence(result[i], context[i])
            /\ Len(result[i]) <= Len(context[i])

\* C2 witness: documents were returned, fewer than the candidates, from a
\* candidate list that holds the same text twice.
C2_Witness ==
    /\ Returned(1) /\ SomeIncluded(1)
    /\ Len(context[1]) = 3 /\ Len(result[1]) = 2
    /\ context[1][2] = context[1][3]
    /\ result[1] = << context[1][1], context[1][3] >>

\* ----------------------------------------------------------------------- C3
\* C3: a candidate whose grading call answered with a text that parses to a
\* confidence_score is included if and only if the score is above 0.5; a
\* score of exactly 0.5 excludes it.
C3_StrictThreshold ==
    \A i \in Solo : \A j \in 1..Len(judgments[i]) :
        ParsedCall(i, j) =>
            /\ judgments[i][j].confidence = Payload(i, j)[1].val
            /\ judgments[i][j].included <=> (Payload(i, j)[1].val > 500)
            /\ Payload(i, j)[1].val = 500 => ~judgments[i][j].included

\* C3 witness: of three parsed scores 0.5, 0.6 and 0.1, only the second
\* document was returned.
C3_Witness ==
    /\ Returned(1)
    /\ Len(judgments[1]) = 3
    /\ \A j \in 1..3 : ParsedCall(1, j)
    /\ confidence_scores[1] = << 500, 600, 100 >>
    /\ result[1] = << context[1][2] >>

\* ----------------------------------------------------------------------- C4
\* C4: a candidate whose grading call timed out, answered with a text that
\* does not parse to a numeric confidence_score, or raised, is included and
\* recorded with confidence 0.6, whichever the table; once graded it stays in
\* relevant_docs and is in the returned list.
C4_FailureIncludes ==
    \A i \in Solo : \A j \in 1..Len(judgments[i]) :
        FailedCall(i, j) =>
            /\ judgments[i][j].included
            /\ judgments[i][j].confidence = 600
            /\ confidence_scores[i][j] = 600
            /\ \E k \in 1..Len(relevant_docs[i]) : relevant_docs[i][k] = context[i][j]
            /\ Returned(i) => \E k \in 1..Len(result[i]) : result[i][k] = context[i][j]

\* C4 witness: on blogs, a timeout, a malformed answer and a raising call;
\* all three documents were returned.
C4_Witness ==
    /\ Returned(1) /\ table[1] = "blogs"
    /\ Len(calls[1]) = 3
    /\ TimedOutCall(1, 1) /\ MalformedCall(1, 2) /\ RaisedCall(1, 3)
    /\ confidence_scores[1] = << 600, 600, 600 >>
    /\ result[1] = context[1]

\* ----------------------------------------------------------------------- C5
\* The candidates kept by the reference filter: those whose grading failed
\* or whose parsed score is above 0.5, in candidate order.
Keeps(i, j) == FailedCall(i, j) \/ (ParsedCall(i, j) /\ Payload(i, j)[1].val > 500)

RECURSIVE Kept(_, _)
Kept(i, n) ==
    IF n = 0 THEN << >>
    ELSE IF Keeps(i, n) THEN Append(Kept(i, n - 1), context[i][n])
    ELSE Kept(i, n - 1)

ReferenceResult(i) ==
    IF Kept(i, Len(context[i])) = << >>
    THEN << "No relevant documents found." >>
    ELSE Kept(i, Len(context[i]))

\* The store of invocation i's table answered the search with documents.
Retrieved(i) ==
    /\ pc[i] # "idle"
    /\ table[i] \in ValidTables
    /\ store[table[i]].fault = NoFault

\* C5: for a valid table whose store answers, searchRAG returns the
\* reference result: the candidates whose judgment is included (score above
\* 0.5, or grading failed) in candidate order, and the sentinel when none is.
C5_MatchesReference ==
    \A i \in Solo :
        (Returned(i) /\ Retrieved(i)) =>
            /\ Len(calls[i]) = Len(context[i])
            /\ result[i] = ReferenceResult(i)

\* C5 witness: scores 0.9, 0.3, 0.7 over three chunks returned chunk1 and
\* chunk3.
C5_Witness ==
    /\ Returned(1) /\ table[1] = "repairs"
    /\ context[1] = << "chunk1", "chunk2", "chunk3" >>
    /\ confidence_scores[1] = << 900, 300, 700 >>
    /\ result[1] = << "chunk1", "chunk3" >>

\* ----------------------------------------------------------------------- C6
\* C6: when the store of a valid table returns no candidate, searchRAG
\* returns the one-element sentinel list at once: no grading call is issued
\* and nothing is awaited.
C6_EmptyContextSentinel ==
    \A i \in Solo :
        (Retrieved(i) /\ Len(store[table[i]].docs) = 0) =>
            /\ Returned(i)
            /\ result[i] = << "No relevant documents found." >>
            /\ calls[i] = << >>
            /\ judgments[i] = << >>
            /\ clock[i] = 0

\* C6 witness: a search of the empty repairs store has returned.
C6_Witness ==
    /\ Returned(1) /\ table[1] = "repairs"
    /\ searched[1] = << "repairs" >>
    /\ store["repairs"].docs = << >> /\ store["repairs"].fault = NoFault
    /\ context[1] = << >>

\* ----------------------------------------------------------------------- C7
\* C7: for a table other than "repairs" and "blogs", searchRAG fails at
\* once: no store is searched, no grading call is issued, and the caller
\* gets the invalid-table error as the one string of the returned list.
C7_InvalidTableFails ==
    \A i \in Solo :
        (pc[i] # "idle" /\ table[i] \notin {"repairs", "blogs"}) =>
            /\ Returned(i)
            /\ searched[i] = << >>
            /\ calls[i] = << >>
            /\ context[i] = << >>
            /\ clock[i] = 0
            /\ result[i] = << "Error searching " \o table[i]
                                \o ": ValueError: Invalid table: " \o table[i] >>

\* C7 witness: searchRAG("warranties", ...) has returned its error string
\* while both stores hold documents.
C7_Witness ==
    /\ Returned(1) /\ table[1] = "warranties"
    /\ result[1] = << "Error searching warranties: ValueError: Invalid table: warranties" >>
    /\ \A t \in ValidTables : Len(store[t].docs) > 0 /\ store[t].fault = NoFault

\* ----------------------------------------------------------------------- C8
\* An exception reached the handler of line 239 in invocation i: the table
\* is invalid, or the store's search raised.
Handled(i) ==
    /\ Returned(i)
    /\ table[i] \notin ValidTables \/ store[table[i]].fault # NoFault

HandledExc(i) ==
    IF table[i] \in ValidTables THEN store[table[i]].fault
    ELSE Exc("ValueError", "Invalid table: " \o table[i])

\* C8 as stated: whenever an exception reaches the handler, the returned
\* list is the one string "Error searching {table}: {error_type}:
\* {error_detail}", also when the exception's message is empty.
C8_ErrorFormAsStated ==
    \A i \in Solo :
        Handled(i) =>
            result[i] = << "Error searching " \o table[i] \o ": "
                            \o HandledExc(i).type \o ": " \o HandledExc(i).detail >>

\* C8 amended: the returned list is the one string "Error searching {table}:
\* {error_type}: {error_detail}" when the exception's message is not empty,
\* and "Error searching {table}: {error_type}" when it is empty.
C8_ErrorForm ==
    \A i \in Solo :
        Handled(i) =>
            /\ Len(result[i]) = 1
            /\ HandledExc(i).detail # "" =>
                  result[i][1] = "Error searching " \o table[i] \o ": "
                                    \o HandledExc(i).type \o ": " \o HandledExc(i).detail
            /\ HandledExc(i).detail = "" =>
                  result[i][1] = "Error searching " \o table[i] \o ": "
                                    \o HandledExc(i).type

\* C8 witness: the repairs store raised an exception with an empty message.
C8_Witness ==
    /\ Returned(1) /\ table[1] = "repairs"
    /\ store["repairs"].fault = Exc("AssertionError", "")
    /\ result[1] = << "Error searching repairs: AssertionError" >>

\* ----------------------------------------------------------------------- C9
\* How long grading call j of invocation i was awaited.
Waited(i, j) == calls[i][j].end - calls[i][j].start

RECURSIVE WaitedBefore(_, _, _)
\* The time awaited in the calls before call j; with skip, the calls that
\* timed out are not counted.
WaitedBefore(i, j, skip) ==
    IF j <= 1 THEN 0
    ELSE WaitedBefore(i, j - 1, skip)
            + (IF skip /\ TimedOutCall(i, j - 1) THEN 0 ELSE Waited(i, j - 1))

\* Every candidate of a returned invocation was graded, and every call had
\* a timeout of its own: a call that timed out was awaited 10 seconds, and a
\* call that answered or raised was awaited as long as the grader took.
OwnTimeout(i) ==
    /\ (Returned(i) /\ Retrieved(i)) =>
          /\ Len(judgments[i]) = Len(context[i])
          /\ Ended(i) = 1..Len(context[i])
    /\ \A j \in Ended(i) :
          /\ TimedOutCall(i, j) => Waited(i, j) = 10
          /\ ~TimedOutCall(i, j) =>
                Waited(i, j) = calls[i][j].did.lat /\ Waited(i, j) < 10
    /\ pc[i] = "awaiting" => deadline[i] = calls[i][Len(calls[i])].start + 10

\* C9 as stated: every call has its own 10-second timeout, every candidate
\* is graded, and a timeout delays no other candidate: the time at which a
\* call starts owes nothing to the calls before it that timed out.
C9_TimeoutDelaysNothing ==
    \A i \in Solo :
        /\ OwnTimeout(i)
        /\ \A j \in 1..Len(calls[i]) : calls[i][j].start = WaitedBefore(i, j, TRUE)

\* C9 amended: every call has its own 10-second timeout and a timeout
\* cancels no other candidate's judgment: every candidate is graded, with a
\* full timeout of its own.  The calls are made one after the other, so a
\* timeout delays the candidates after it: a call starts when the call
\* before it has ended or timed out.
C9_TimeoutCancelsNothing ==
    \A i \in Solo :
        /\ OwnTimeout(i)
        /\ \A j \in 1..Len(calls[i]) : calls[i][j].start = WaitedBefore(i, j, FALSE)

\* C9 witness: the first call timed out; the second started 10 seconds in,
\* answered after 4 seconds and was judged; the third timed out at 24.
C9_Witness ==
    /\ Returned(1) /\ Len(calls[1]) = 3
    /\ TimedOutCall(1, 1) /\ ParsedCall(1, 2) /\ TimedOutCall(1, 3)
    /\ calls[1][2].start = 10 /\ calls[1][2].end = 14
    /\ calls[1][3].end = 24
    /\ Len(result[1]) >= 2

\* ---------------------------------------------------------------------- C10
IdleFrame ==
    [pc |-> "idle", table |-> "", query |-> "", context |-> << >>, idx |-> 0,
     relevant_docs |-> << >>, confidence_scores |-> << >>, deadline |-> 0,
     clock |-> 0, result |-> << >>, escaped |-> NoFault, searched |-> << >>,
     calls |-> << >>, judgments |-> << >>, logged |-> << >>]

RECURSIVE Replay(_, _)
Replay(s, dids) ==
    IF dids = << >> \/ s.pc # "awaiting" THEN s
    ELSE Replay(Resume(s, Head(dids)), Tail(dids))

\* The local state of an invocation run alone on the same stores with the
\* same arguments and the same grader outcomes as invocation i so far.
RunAlone(i) ==
    IF pc[i] = "idle" THEN IdleFrame
    ELSE Replay(Enter(IdleFrame, store, table[i], query[i]),
                [j \in 1..Cardinality(Ended(i)) |-> calls[i][j].did])

Isolated ==
    \A i \in Invocations :
        /\ Frame(i) = RunAlone(i)
        /\ (Returned(i) /\ Retrieved(i)) => result[i] = ReferenceResult(i)

\* C10: invocations interleaving at their awaits share no mutable state:
\* in every interleaving each invocation's local state, and so the list it
\* returns, is the one it has when run alone on the same stores with the same
\* grader outcomes; and no step changes a store.
C10_InvocationsIsolated == []Isolated /\ [][store' = store]_vars

\* C10 witness: both invocations are in the middle of their loops over the
\* same table, each with a judged document, with different lists.
C10_Witness ==
    /\ pc[1] = "awaiting" /\ pc[2] = "awaiting"
    /\ table[1] = table[2] /\ query[1] # query[2]
    /\ Len(judgments[1]) = 1 /\ Len(judgments[2]) = 1
    /\ relevant_docs[1] # relevant_docs[2]
    /\ context[1] # context[2]

\* ---------------------------------------------------------------------- C11
\* The grading loop of invocation i has finished over a non-empty candidate
\* list.
LoopFinished(i) == Returned(i) /\ Retrieved(i) /\ context[i] # << >>

\* The number of candidates of invocation i that were included.
RECURSIVE IncludedCount(_, _)
IncludedCount(i, n) ==
    IF n = 0 THEN 0
    ELSE IncludedCount(i, n - 1) + (IF judgments[i][n].included THEN 1 ELSE 0)

\* The summary has one score per candidate, and its counts are the number
\* of included candidates out of the number of candidates.
SummaryCounts(i) ==
    /\ Len(logged[i]) = 1
    /\ Len(logged[i][1].scores) = Len(context[i])
    /\ logged[i][1].total = Len(context[i])
    /\ logged[i][1].included <= logged[i][1].total
    /\ logged[i][1].included = IncludedCount(i, Len(judgments[i]))

\* C11 as stated: when the grading loop finishes for a non-empty candidate
\* list, the logged scores hold one entry per candidate, in candidate order:
\* the parsed score itself on success and 0.6 on any failure; and the logged
\* counts satisfy included <= total = number of candidates, included being
\* the number of included candidates.
C11_LogsParsedScores ==
    \A i \in Solo :
        LoopFinished(i) =>
            /\ SummaryCounts(i)
            /\ \A j \in 1..Len(context[i]) :
                  /\ ParsedCall(i, j) => logged[i][1].scores[j] * 10 = Payload(i, j)[1].val
                  /\ FailedCall(i, j) => logged[i][1].scores[j] = 60

\* C11 amended: as stated, but the entry of a successfully graded candidate
\* is its parsed score rounded to two decimals (the hundredth nearest to
\* it), not the parsed score itself.
C11_LogsRoundedScores ==
    \A i \in Solo :
        LoopFinished(i) =>
            /\ SummaryCounts(i)
            /\ \A j \in 1..Len(context[i]) :
                  /\ ParsedCall(i, j) =>
                        /\ logged[i][1].scores[j] * 10 - 5 <= Payload(i, j)[1].val
                        /\ Payload(i, j)[1].val < logged[i][1].scores[j] * 10 + 5
                  /\ FailedCall(i, j) => logged[i][1].scores[j] = 60

\* C11 witness: parsed scores 0.857 and 0.1 and a timeout were logged as
\* 0.86, 0.1 and 0.6, with 2 of 3 documents included.
C11_Witness ==
    /\ LoopFinished(1)
    /\ confidence_scores[1] = << 857, 100, 600 >>
    /\ TimedOutCall(1, 3)
    /\ logged[1] = << [included |-> 2, total |-> 3, scores |-> << 86, 10, 60 >>] >>

\* ---------------------------------------------------------------------- C12
\* The calls the request made on a client.
RequestCalls ==
    { j \in 1..Len(client_calls) :
          client_calls[j].method \in { Method(e) : e \in Endpoints } }

\* The handler has tested the global client; it has read the body.
ClientTested == req.pc # "idle"
BodyTested == req.pc \notin {"idle", "get_json"}

\* The request passed validation: the client was not None when the handler
\* tested it, and the body holds a non-empty query.
PassedValidation ==
    /\ BodyTested
    /\ req.checked # None
    /\ req.body.is_object
    /\ ~NotQuery(req.body)

\* The request failed validation: the client was None when the handler
\* tested it, or the body is an object with no query or an empty one.
FailedValidation ==
    \/ ClientTested /\ req.checked = None
    \/ BodyTested /\ req.body.is_object /\ NotQuery(req.body)

\* The generator of the request has come to its end.
StreamOver == req.pc \in {"closed", "broken"}

\* The call of the client returned within the deadline.
ReturnedInTime == req.did.kind = "return" /\ req.did.lat < ChatTimeout

LastHook == hooks[Len(hooks)].hook

\* The global client after each hook call that returned, and between the
\* hook calls.
ClientFollowsLifecycle ==
    /\ hook_pc # "crashed"
    /\ \A j \in 1..Len(hooks) :
          /\ hooks[j].hook = "startup" => hooks[j].client # None
          /\ hooks[j].hook = "shutdown" => hooks[j].client = None
    /\ (hook_pc = "idle" /\ hooks # << >>) =>
          (client = None <=> LastHook = "shutdown")

\* No step puts another client in the place of an existing one, or makes a
\* client while one exists.
ClientKept ==
    client # None => (client' \in {client, None} /\ constructed' = constructed)

\* A request that arrives after startup() returned, and before shutdown()
\* returns, is not answered 'No MCP client initialized'.
ServedAfterStartup ==
    (req.pc = "idle" /\ req'.pc # "idle" /\ hooks # << >> /\ LastHook = "startup")
        => req'.error # "No MCP client initialized"

\* C13: whether the global client is None depends on the lifecycle alone:
\* it is not None after startup() returns, a connect_to_server call having
\* raised or not (so that requests are not answered 'No MCP client
\* initialized'); it is None after shutdown() returns, cleanup() having
\* raised an Exception or not; and startup() never replaces a client that
\* exists.
C13_ClientFollowsLifecycle ==
    /\ []ClientFollowsLifecycle
    /\ [][ClientKept /\ ServedAfterStartup]_vars

\* C13 witness: startup() returned with the first client after a connection
\* raised, a second startup() kept that client, and shutdown() returned with
\* the client None after cleanup() raised.
C13_Witness ==
    /\ hook_pc = "idle"
    /\ client = None
    /\ constructed = 1
    /\ hooks = << HookReturn("startup", TRUE, MCPClient(1)),
                  HookReturn("startup", FALSE, MCPClient(1)),
                  HookReturn("shutdown", TRUE, None) >>

====
